---- MODULE Spec2Model ----
(***************************************************************************)
(* Bounce Tennis Shot Tracker (app.py): one run of the Streamlit script.   *)
(* The script is a single linear program; pc is the position of the run    *)
(* in it.  The detector, the video reader and the video writer are         *)
(* external libraries: what they return (a frame or end of stream, the     *)
(* list of boxes, the plotted image, an exception) is drawn from small     *)
(* sets.                                                                   *)
(***************************************************************************)
EXTENDS Integers, Sequences, FiniteSets, TLC

\* ------------------------------------------------------------------ bounds
\* The reader yields at most MaxFrames frames before it signals end of stream.
MaxFrames == 2
\* The detector returns at most MaxBoxes boxes for one frame.
MaxBoxes == 1
\* Class ids returned by the detector range over 0..MaxClassId.
MaxClassId == 3
\* CAP_PROP_FRAME_COUNT is reported in -1..MaxReported.
MaxReported == 2

\* --------------------------------------------------------- program constants
\* len(feedback_tips)
NumTips == 10

\* class_map = {0: "Forehand", 1: "Backhand", 2: "Serve"}
class_map == (0 :> "Forehand") @@ (1 :> "Backhand") @@ (2 :> "Serve")

ClassIds == 0..MaxClassId

\* Every list of boxes (by class id) the detector can return for a frame.
BoxLists == UNION {[1..n -> ClassIds] : n \in 0..MaxBoxes}

\* annotated is None (never plotted / plot returned nothing).
NoImage == [src |-> 0, plotted |-> FALSE, dtype |-> "none", sizeOk |-> FALSE]

\* The images results[0].plot() can return for frame f: None, or an overlay
\* of f that is uint8 or float, of the input's size or not.
PlotOutputs(f) ==
  {NoImage} \cup
  {[src |-> f, plotted |-> TRUE, dtype |-> d, sizeOk |-> s] :
     d \in {"uint8", "float"}, s \in BOOLEAN}

VARIABLES
  pc,              \* position of the run in the script
  error,           \* what st.error / the uncaught exception reported
  modelLoaded,     \* load_model returned a model
  saved,           \* the upload was written to temp_in
  capConstructed,  \* cv2.VideoCapture(video_path) was called
  capIsOpened,     \* cap.isOpened()
  capReleased,     \* cap.release() was called
  frame_count,     \* int(cap.get(CAP_PROP_FRAME_COUNT) or 0)
  writerCreated,   \* cv2.VideoWriter(out_path, ...) was called
  writerIsOpened,  \* the writer opened its file
  writerReleased,  \* writer.release() was called
  outExists,       \* os.path.exists(out_path)
  outSize,         \* os.path.getsize(out_path), in abstract units
  shot_counter,    \* Counter(): label -> count, only the labels seen
  i,               \* frames processed
  frame,           \* the frame cap.read() returned (its stream position)
  boxes,           \* results[0].boxes, as class ids
  annotated,       \* the image being prepared for the writer
  boxIdx,          \* position of the for loop over boxes
  readFrames,      \* the frames cap.read() yielded, in order
  written,         \* the images passed to writer.write, in order
  reported,        \* the values passed to progress_bar.progress in the loop
  divisions,       \* how many times i / frame_count was evaluated
  inferences,      \* how many times model.predict was called
  inScopeSeen,     \* detections returned so far whose class id is in class_map
  resultsShown,    \* the Results section was rendered
  tip,             \* index of the coaching tip shown (0: none)
  downloadOffered  \* st.download_button was rendered

vars ==
  <<pc, error, modelLoaded, saved, capConstructed, capIsOpened, capReleased,
    frame_count, writerCreated, writerIsOpened, writerReleased, outExists,
    outSize, shot_counter, i, frame, boxes, annotated, boxIdx, readFrames,
    written, reported, divisions, inferences, inScopeSeen, resultsShown, tip,
    downloadOffered>>

\* ----------------------------------------------------------------- helpers
\* Counter(): no keys.
EmptyCounter == [l \in {} |-> 0]

\* Counter.__getitem__: a missing key reads as 0.
CounterGet(c, l) == IF l \in DOMAIN c THEN c[l] ELSE 0

\* Increment with the += written as =: the count is set to 1, not raised by 1.
IncrementAssign(c, l) ==
  [x \in DOMAIN c \cup {l} |-> IF x = l THEN 1 ELSE c[x]]

\* shot_counter[l] += 1
Increment(c, l) ==
  [x \in DOMAIN c \cup {l} |-> IF x = l THEN CounterGet(c, l) + 1 ELSE c[x]]

\* cls_id in class_map
InClassMap(cls_id) == cls_id \in DOMAIN class_map

\* CountOne without the membership test: an id outside class_map is counted
\* under a label of its own.
CountOneUnmapped(c, cls_id) ==
  Increment(c, IF InClassMap(cls_id) THEN class_map[cls_id] ELSE "Unknown")

\* The body of the for loop over boxes, for one box.
CountOne(c, cls_id) ==
  IF InClassMap(cls_id) THEN Increment(c, class_map[cls_id]) ELSE c

\* ProgressFraction without the min(..., 1.0) cap.
ProgressFractionUncapped(n, total) == [num |-> n, den |-> total]

\* min(i / frame_count, 1.0), as the exact fraction num/den.
ProgressFraction(n, total) ==
  IF n > total THEN [num |-> 1, den |-> 1] ELSE [num |-> n, den |-> total]

\* ------------------------------------------------------------------- Init
Init ==
  /\ pc = "load_model"
  /\ error = "none"
  /\ modelLoaded = FALSE
  /\ saved = FALSE
  /\ capConstructed = FALSE
  /\ capIsOpened = FALSE
  /\ capReleased = FALSE
  /\ frame_count = 0
  /\ writerCreated = FALSE
  /\ writerIsOpened = FALSE
  /\ writerReleased = FALSE
  /\ outExists = FALSE
  /\ outSize = 0
  /\ shot_counter = EmptyCounter
  /\ i = 0
  /\ frame = 0
  /\ boxes = <<>>
  /\ annotated = NoImage
  /\ boxIdx = 0
  /\ readFrames = <<>>
  /\ written = <<>>
  /\ reported = <<>>
  /\ divisions = 0
  /\ inferences = 0
  /\ inScopeSeen = 0
  /\ resultsShown = FALSE
  /\ tip = 0
  /\ downloadOffered = FALSE

\* ---------------------------------------------------------------- actions
\* LoadModel without the st.stop(): the error is shown and the script goes on.
LoadModelNoStop ==
  /\ pc = "load_model"
  /\ \E ok \in BOOLEAN :
       /\ modelLoaded' = ok
       /\ error' = IF ok THEN error ELSE "ModelLoadError"
  /\ pc' = "upload"
  /\ UNCHANGED <<saved, capConstructed, capIsOpened, capReleased,
                 frame_count, writerCreated, writerIsOpened, writerReleased,
                 outExists, outSize, shot_counter, i, frame, boxes,
                 annotated, boxIdx, readFrames, written, reported, divisions,
                 inferences, inScopeSeen, resultsShown, tip, downloadOffered>>

\* try: model = load_model(MODEL_PATH) / except: st.error; st.stop()
LoadModel ==
  /\ pc = "load_model"
  /\ \E ok \in BOOLEAN :
       IF ok
       THEN /\ modelLoaded' = TRUE
            /\ pc' = "upload"
            /\ error' = error
       ELSE /\ modelLoaded' = FALSE
            /\ pc' = "stopped"
            /\ error' = "ModelLoadError"
  /\ UNCHANGED <<saved, capConstructed, capIsOpened, capReleased, frame_count,
                 writerCreated, writerIsOpened, writerReleased, outExists,
                 outSize, shot_counter, i, frame, boxes, annotated, boxIdx,
                 readFrames, written, reported, divisions, inferences,
                 inScopeSeen, resultsShown, tip, downloadOffered>>

\* uploaded_file = st.file_uploader(...); if None: st.info; st.stop()
Upload ==
  /\ pc = "upload"
  /\ \E given \in BOOLEAN :
       pc' = IF given THEN "save" ELSE "stopped"
  /\ UNCHANGED <<error, modelLoaded, saved, capConstructed, capIsOpened,
                 capReleased, frame_count, writerCreated, writerIsOpened,
                 writerReleased, outExists, outSize, shot_counter, i, frame,
                 boxes, annotated, boxIdx, readFrames, written, reported,
                 divisions, inferences, inScopeSeen, resultsShown, tip,
                 downloadOffered>>

\* temp_in.write(uploaded_file.read()); out_path = ...
SaveUpload ==
  /\ pc = "save"
  /\ saved' = TRUE
  /\ pc' = "open"
  /\ UNCHANGED <<error, modelLoaded, capConstructed, capIsOpened, capReleased,
                 frame_count, writerCreated, writerIsOpened, writerReleased,
                 outExists, outSize, shot_counter, i, frame, boxes, annotated,
                 boxIdx, readFrames, written, reported, divisions, inferences,
                 inScopeSeen, resultsShown, tip, downloadOffered>>

\* cap = cv2.VideoCapture(video_path)
OpenVideo ==
  /\ pc = "open"
  /\ capConstructed' = TRUE
  /\ \E opened \in BOOLEAN : capIsOpened' = opened
  /\ pc' = "check_open"
  /\ UNCHANGED <<error, modelLoaded, saved, capReleased, frame_count,
                 writerCreated, writerIsOpened, writerReleased, outExists,
                 outSize, shot_counter, i, frame, boxes, annotated, boxIdx,
                 readFrames, written, reported, divisions, inferences,
                 inScopeSeen, resultsShown, tip, downloadOffered>>

\* CheckOpened without the st.stop(): the error is shown and the script goes on.
CheckOpenedNoStop ==
  /\ pc = "check_open"
  /\ error' = IF capIsOpened THEN error ELSE "UnreadableVideo"
  /\ pc' = "meta"
  /\ UNCHANGED <<modelLoaded, saved, capConstructed, capIsOpened,
                 capReleased, frame_count, writerCreated, writerIsOpened,
                 writerReleased, outExists, outSize, shot_counter, i, frame,
                 boxes, annotated, boxIdx, readFrames, written, reported,
                 divisions, inferences, inScopeSeen, resultsShown, tip,
                 downloadOffered>>

\* if not cap.isOpened(): st.error(...); st.stop()
CheckOpened ==
  /\ pc = "check_open"
  /\ IF capIsOpened
     THEN /\ pc' = "meta"
          /\ error' = error
     ELSE /\ pc' = "stopped"
          /\ error' = "UnreadableVideo"
  /\ UNCHANGED <<modelLoaded, saved, capConstructed, capIsOpened, capReleased,
                 frame_count, writerCreated, writerIsOpened, writerReleased,
                 outExists, outSize, shot_counter, i, frame, boxes, annotated,
                 boxIdx, readFrames, written, reported, divisions, inferences,
                 inScopeSeen, resultsShown, tip, downloadOffered>>

\* frame_count = int(cap.get(cv2.CAP_PROP_FRAME_COUNT) or 0); width, height, fps
ReadMeta ==
  /\ pc = "meta"
  /\ \E n \in -1..MaxReported : frame_count' = n
  /\ pc' = "mkwriter"
  /\ UNCHANGED <<error, modelLoaded, saved, capConstructed, capIsOpened,
                 capReleased, writerCreated, writerIsOpened, writerReleased,
                 outExists, outSize, shot_counter, i, frame, boxes, annotated,
                 boxIdx, readFrames, written, reported, divisions, inferences,
                 inScopeSeen, resultsShown, tip, downloadOffered>>

\* writer = cv2.VideoWriter(out_path, fourcc, fps, (width, height)).  A writer
\* that opens creates the file (the container header may still be buffered); one
\* that fails to open may leave an empty file or none.
CreateWriter ==
  /\ pc = "mkwriter"
  /\ writerCreated' = TRUE
  /\ \E opened \in BOOLEAN, bit \in BOOLEAN :
       /\ writerIsOpened' = opened
       /\ outExists' = (opened \/ bit)
       /\ outSize' = IF opened /\ bit THEN 1 ELSE 0
  /\ pc' = "init_progress"
  /\ UNCHANGED <<error, modelLoaded, saved, capConstructed, capIsOpened,
                 capReleased, frame_count, writerReleased, shot_counter, i,
                 frame, boxes, annotated, boxIdx, readFrames, written,
                 reported, divisions, inferences, inScopeSeen, resultsShown,
                 tip, downloadOffered>>

\* shot_counter = Counter(); progress_bar = st.progress(0); i = 0
InitProgress ==
  /\ pc = "init_progress"
  /\ shot_counter' = EmptyCounter
  /\ i' = 0
  /\ pc' = "read"
  /\ UNCHANGED <<error, modelLoaded, saved, capConstructed, capIsOpened,
                 capReleased, frame_count, writerCreated, writerIsOpened,
                 writerReleased, outExists, outSize, frame, boxes, annotated,
                 boxIdx, readFrames, written, reported, divisions,
                 inferences, inScopeSeen, resultsShown, tip, downloadOffered>>

\* ret, frame = cap.read(); if not ret: break
ReadFrame ==
  /\ pc = "read"
  /\ \/ /\ Len(readFrames) < MaxFrames
        /\ frame' = Len(readFrames) + 1
        /\ readFrames' = Append(readFrames, Len(readFrames) + 1)
        /\ pc' = "predict"
     \/ /\ frame' = 0
        /\ readFrames' = readFrames
        /\ pc' = "release_cap"
  /\ UNCHANGED <<error, modelLoaded, saved, capConstructed, capIsOpened,
                 capReleased, frame_count, writerCreated, writerIsOpened,
                 writerReleased, outExists, outSize, shot_counter, i, boxes,
                 annotated, boxIdx, written, reported, divisions, inferences,
                 inScopeSeen, resultsShown, tip, downloadOffered>>

\* results = model.predict(frame, ...): a list of boxes, or an exception that
\* nothing catches.
Predict ==
  /\ pc = "predict"
  /\ inferences' = inferences + 1
  /\ \/ /\ \E b \in BoxLists :
             /\ boxes' = b
             /\ inScopeSeen' =
                  inScopeSeen + Cardinality({k \in DOMAIN b : b[k] \in {0, 1, 2}})
          /\ pc' = "plot"
          /\ error' = error
     \/ /\ pc' = "crashed"
        /\ error' = "Exception"
        /\ UNCHANGED <<boxes, inScopeSeen>>
  /\ UNCHANGED <<modelLoaded, saved, capConstructed, capIsOpened,
                 capReleased, frame_count, writerCreated, writerIsOpened,
                 writerReleased, outExists, outSize, shot_counter, i, frame,
                 annotated, boxIdx, readFrames, written, reported, divisions,
                 resultsShown, tip, downloadOffered>>

\* annotated = results[0].plot()
Plot ==
  /\ pc = "plot"
  /\ \/ /\ \E a \in PlotOutputs(frame) : annotated' = a
        /\ boxIdx' = 1
        /\ pc' = "count"
        /\ error' = error
     \/ /\ pc' = "crashed"
        /\ error' = "Exception"
        /\ UNCHANGED <<annotated, boxIdx>>
  /\ UNCHANGED <<modelLoaded, saved, capConstructed, capIsOpened,
                 capReleased, frame_count, writerCreated, writerIsOpened,
                 writerReleased, outExists, outSize, shot_counter, i, frame,
                 boxes, readFrames, written, reported, divisions, inferences,
                 inScopeSeen, resultsShown, tip, downloadOffered>>

\* for box in results[0].boxes: cls_id = int(box.cls[0].item());
\*   if cls_id in class_map: shot_counter[class_map[cls_id]] += 1
CountBox ==
  /\ pc = "count"
  /\ IF boxIdx <= Len(boxes)
     THEN /\ shot_counter' = CountOne(shot_counter, boxes[boxIdx])
          /\ boxIdx' = boxIdx + 1
          /\ pc' = pc
     ELSE /\ pc' = "normalize"
          /\ UNCHANGED <<shot_counter, boxIdx>>
  /\ UNCHANGED <<error, modelLoaded, saved, capConstructed, capIsOpened,
                 capReleased, frame_count, writerCreated, writerIsOpened,
                 writerReleased, outExists, outSize, i, frame, boxes,
                 annotated, readFrames, written, reported, divisions,
                 inferences, inScopeSeen, resultsShown, tip, downloadOffered>>

\* if annotated is None: annotated = frame
\* if annotated.dtype != np.uint8: annotated = (255 * np.clip(...)).astype(np.uint8)
\* if (annotated.shape[1], annotated.shape[0]) != (width, height): cv2.resize(...)
Normalized(a, f) ==
  LET a1 == IF a = NoImage
            THEN [src |-> f, plotted |-> FALSE, dtype |-> "uint8", sizeOk |-> TRUE]
            ELSE a
      a2 == IF a1.dtype # "uint8" THEN [a1 EXCEPT !.dtype = "uint8"] ELSE a1
  IN  IF ~a2.sizeOk THEN [a2 EXCEPT !.sizeOk = TRUE] ELSE a2

\* Normalize that skips the frame when plot() returned None instead of falling
\* back to the input frame.
NormalizeSkipNone ==
  /\ pc = "normalize"
  /\ \/ /\ annotated # NoImage
        /\ annotated' = Normalized(annotated, frame)
        /\ pc' = "write"
        /\ error' = error
     \/ /\ annotated = NoImage
        /\ annotated' = annotated
        /\ pc' = "advance"
        /\ error' = error
     \/ /\ annotated # NoImage
        /\ ~annotated.sizeOk
        /\ pc' = "crashed"
        /\ error' = "Exception"
        /\ annotated' = annotated
  /\ UNCHANGED <<modelLoaded, saved, capConstructed, capIsOpened,
                 capReleased, frame_count, writerCreated, writerIsOpened,
                 writerReleased, outExists, outSize, shot_counter, i, frame,
                 boxes, boxIdx, readFrames, written, reported, divisions,
                 inferences, inScopeSeen, resultsShown, tip, downloadOffered>>

\* The normalisation of lines 125-130; cv2.resize is the call in it that can
\* raise (a reported width or height of 0).
Normalize ==
  /\ pc = "normalize"
  /\ \/ /\ annotated' = Normalized(annotated, frame)
        /\ pc' = "write"
        /\ error' = error
     \/ /\ annotated # NoImage
        /\ ~annotated.sizeOk
        /\ pc' = "crashed"
        /\ error' = "Exception"
        /\ annotated' = annotated
  /\ UNCHANGED <<modelLoaded, saved, capConstructed, capIsOpened,
                 capReleased, frame_count, writerCreated, writerIsOpened,
                 writerReleased, outExists, outSize, shot_counter, i, frame,
                 boxes, boxIdx, readFrames, written, reported, divisions,
                 inferences, inScopeSeen, resultsShown, tip, downloadOffered>>

\* writer.write(cv2.cvtColor(annotated, cv2.COLOR_RGB2BGR)): the image is
\* passed to the writer, which encodes it if it is open.
WriteFrame ==
  /\ pc = "write"
  /\ \/ /\ written' = Append(written, annotated)
        /\ outSize' = IF writerIsOpened THEN outSize + 1 ELSE outSize
        /\ pc' = "advance"
        /\ error' = error
     \/ /\ pc' = "crashed"
        /\ error' = "Exception"
        /\ UNCHANGED <<written, outSize>>
  /\ UNCHANGED <<modelLoaded, saved, capConstructed, capIsOpened,
                 capReleased, frame_count, writerCreated, writerIsOpened,
                 writerReleased, outExists, shot_counter, i, frame, boxes,
                 annotated, boxIdx, readFrames, reported, divisions,
                 inferences, inScopeSeen, resultsShown, tip, downloadOffered>>

\* i += 1; if frame_count > 0: progress_bar.progress(min(i / frame_count, 1.0))
Advance ==
  /\ pc = "advance"
  /\ i' = i + 1
  /\ IF frame_count > 0
     THEN /\ reported' = Append(reported, ProgressFraction(i + 1, frame_count))
          /\ divisions' = divisions + 1
     ELSE UNCHANGED <<reported, divisions>>
  /\ pc' = "read"
  /\ UNCHANGED <<error, modelLoaded, saved, capConstructed, capIsOpened,
                 capReleased, frame_count, writerCreated, writerIsOpened,
                 writerReleased, outExists, outSize, shot_counter, frame,
                 boxes, annotated, boxIdx, readFrames, written, inferences,
                 inScopeSeen, resultsShown, tip, downloadOffered>>

\* cap.release()
ReleaseCap ==
  /\ pc = "release_cap"
  /\ capReleased' = TRUE
  /\ pc' = "release_writer"
  /\ UNCHANGED <<error, modelLoaded, saved, capConstructed, capIsOpened,
                 frame_count, writerCreated, writerIsOpened, writerReleased,
                 outExists, outSize, shot_counter, i, frame, boxes,
                 annotated, boxIdx, readFrames, written, reported, divisions,
                 inferences, inScopeSeen, resultsShown, tip, downloadOffered>>

\* The script without its writer.release() line.
ReleaseWriterMissing ==
  /\ pc = "release_writer"
  /\ pc' = "results"
  /\ UNCHANGED <<error, modelLoaded, saved, capConstructed, capIsOpened,
                 capReleased, frame_count, writerCreated, writerIsOpened,
                 writerReleased, outExists, outSize, shot_counter, i, frame,
                 boxes, annotated, boxIdx, readFrames, written, reported,
                 divisions, inferences, inScopeSeen, resultsShown, tip,
                 downloadOffered>>

\* writer.release(): an open writer writes the container's trailer.
ReleaseWriter ==
  /\ pc = "release_writer"
  /\ writerReleased' = TRUE
  /\ outSize' = IF writerIsOpened THEN outSize + 1 ELSE outSize
  /\ pc' = "results"
  /\ UNCHANGED <<error, modelLoaded, saved, capConstructed, capIsOpened,
                 capReleased, frame_count, writerCreated, writerIsOpened,
                 outExists, shot_counter, i, frame, boxes, annotated, boxIdx,
                 readFrames, written, reported, divisions, inferences,
                 inScopeSeen, resultsShown, tip, downloadOffered>>

\* st.subheader("Results"); the counts, or "No shots detected."
ShowResults ==
  /\ pc = "results"
  /\ resultsShown' = TRUE
  /\ pc' = "tip"
  /\ UNCHANGED <<error, modelLoaded, saved, capConstructed, capIsOpened,
                 capReleased, frame_count, writerCreated, writerIsOpened,
                 writerReleased, outExists, outSize, shot_counter, i, frame,
                 boxes, annotated, boxIdx, readFrames, written, reported,
                 divisions, inferences, inScopeSeen, tip, downloadOffered>>

\* random.choice(feedback_tips)
ShowTip ==
  /\ pc = "tip"
  /\ \E t \in 1..NumTips : tip' = t
  /\ pc' = "download"
  /\ UNCHANGED <<error, modelLoaded, saved, capConstructed, capIsOpened,
                 capReleased, frame_count, writerCreated, writerIsOpened,
                 writerReleased, outExists, outSize, shot_counter, i, frame,
                 boxes, annotated, boxIdx, readFrames, written, reported,
                 divisions, inferences, inScopeSeen, resultsShown,
                 downloadOffered>>

\* Download without the os.path.getsize(out_path) > 0 test.
DownloadNoSizeCheck ==
  /\ pc = "download"
  /\ downloadOffered' = outExists
  /\ pc' = "done"
  /\ UNCHANGED <<error, modelLoaded, saved, capConstructed, capIsOpened,
                 capReleased, frame_count, writerCreated, writerIsOpened,
                 writerReleased, outExists, outSize, shot_counter, i, frame,
                 boxes, annotated, boxIdx, readFrames, written, reported,
                 divisions, inferences, inScopeSeen, resultsShown, tip>>

\* if os.path.exists(out_path) and os.path.getsize(out_path) > 0:
\*   st.download_button(...)
Download ==
  /\ pc = "download"
  /\ downloadOffered' = (outExists /\ outSize > 0)
  /\ pc' = "done"
  /\ UNCHANGED <<error, modelLoaded, saved, capConstructed, capIsOpened,
                 capReleased, frame_count, writerCreated, writerIsOpened,
                 writerReleased, outExists, outSize, shot_counter, i, frame,
                 boxes, annotated, boxIdx, readFrames, written, reported,
                 divisions, inferences, inScopeSeen, resultsShown, tip>>

Next ==
  \/ LoadModel
  \/ Upload
  \/ SaveUpload
  \/ OpenVideo
  \/ CheckOpened
  \/ ReadMeta
  \/ CreateWriter
  \/ InitProgress
  \/ ReadFrame
  \/ Predict
  \/ Plot
  \/ CountBox
  \/ Normalize
  \/ WriteFrame
  \/ Advance
  \/ ReleaseCap
  \/ ReleaseWriter
  \/ ShowResults
  \/ ShowTip
  \/ Download

Spec == Init /\ [][Next]_vars

\* --------------------------------------------------------------- run phases
\* The phase of the run, read off the script position: Idle until the reader
\* is constructed, Opened until the loop is entered, Processing inside the
\* loop, Finalized once the loop has ended, Delivered when the download
\* button was rendered, Failed after st.error + st.stop() or an uncaught
\* exception.  A run that stops for want of an upload (st.info) stays Idle.
Phase ==
  CASE pc \in {"load_model", "upload", "save", "open"} -> "Idle"
    [] pc = "stopped" /\ error = "none" -> "Idle"
    [] pc = "stopped" /\ error # "none" -> "Failed"
    [] pc = "crashed" -> "Failed"
    [] pc \in {"check_open", "meta", "mkwriter", "init_progress"} -> "Opened"
    [] pc \in {"read", "predict", "plot", "count", "normalize", "write",
               "advance"} -> "Processing"
    [] pc \in {"release_cap", "release_writer", "results", "tip", "download"}
         -> "Finalized"
    [] pc = "done" /\ ~downloadOffered -> "Finalized"
    [] pc = "done" /\ downloadOffered -> "Delivered"

\* The loop has ended through its break (cap.read() returned ret = False).
AfterLoop ==
  pc \in {"release_cap", "release_writer", "results", "tip", "download", "done"}

\* The run is over: st.stop(), an uncaught exception, or the end of the script.
RunEnded == pc \in {"stopped", "crashed", "done"}

\* ------------------------------------------------------------------ claims
RECURSIVE SumOver(_, _)
SumOver(c, keys) ==
  IF keys = {} THEN 0
  ELSE LET k == CHOOSE x \in keys : TRUE
       IN  c[k] + SumOver(c, keys \ {k})

CounterSum(c) == SumOver(c, DOMAIN c)

\* a <= b for fractions num/den with positive denominators.
FracLeq(a, b) == a.num * b.den <= b.num * a.den

\* C1: when the loop has ended normally, as many frames were passed to the
\* writer as were read, and the k-th image written is made from the k-th frame
\* read: nothing dropped, duplicated or reordered.
C1_FramesWrittenInOrder ==
  AfterLoop =>
    /\ Len(written) = Len(readFrames)
    /\ \A k \in 1..Len(readFrames) : written[k].src = readFrames[k]
    /\ \A j, k \in 1..Len(readFrames) : j # k => readFrames[j] # readFrames[k]

\* C1 witness: a finished loop of two frames, the first written as the raw
\* frame (plot() gave None), the second as its overlay.
C1_Witness ==
  /\ pc = "release_cap"
  /\ Len(written) = 2
  /\ ~written[1].plotted
  /\ written[2].plotted

\* C2: every count of the tally is a non-negative integer at every point of the
\* run, and at every frame boundary and after the loop the counts sum to the
\* number of detections returned whose class id is in {0,1,2}.
C2_TallyCounts ==
  /\ \A l \in DOMAIN shot_counter : shot_counter[l] \in Nat
  /\ (pc = "read" \/ AfterLoop) => CounterSum(shot_counter) = inScopeSeen

\* C2 witness: a finished run of two frames in which the same label was
\* detected twice.
C2_Witness ==
  /\ pc = "done"
  /\ inferences = 2
  /\ inScopeSeen = 2
  /\ DOMAIN shot_counter = {"Forehand"}

\* C3: the values passed to the progress bar lie in [0,1] and never decrease,
\* whatever the reported frame count and the number of frames read; with a
\* reported frame count of 0 or less nothing is divided and nothing reported.
C3_ProgressFractions ==
  /\ \A k \in 1..Len(reported) :
       /\ reported[k].den > 0
       /\ 0 <= reported[k].num
       /\ reported[k].num <= reported[k].den
  /\ \A k \in 1..(Len(reported) - 1) : FracLeq(reported[k], reported[k + 1])
  /\ frame_count <= 0 => (reported = <<>> /\ divisions = 0)
  /\ divisions = Len(reported)

\* C3 witness: more frames processed than the reader reported.
C3_Witness ==
  /\ frame_count = 1
  /\ i = 2
  /\ Len(reported) = 2

\* C4: on every exit path after reader and writer were created, both were
\* released when the run ends.
C4_ReleasedOnEveryExit ==
  (RunEnded /\ writerCreated) => (capReleased /\ writerReleased)

\* C5: a reader that did not open stops the run with the unreadable-video
\* error; no writer, no output file, no frame read, no inference, no tally
\* update.
C5_UnreadableVideo ==
  (capConstructed /\ ~capIsOpened /\ pc # "check_open") =>
    /\ pc = "stopped"
    /\ error = "UnreadableVideo"
    /\ ~writerCreated
    /\ ~outExists
    /\ readFrames = <<>>
    /\ written = <<>>
    /\ inferences = 0
    /\ DOMAIN shot_counter = {}

\* C5 witness: the run stopped on a reader that did not open.
C5_Witness ==
  /\ pc = "stopped"
  /\ error = "UnreadableVideo"
  /\ ~capIsOpened

\* C6: a failed model load stops the run with the model-load error before the
\* upload is saved, the video opened, the writer created or a frame read; and
\* the video is only ever opened after a successful model load.
C6_ModelLoadFirst ==
  /\ (pc # "load_model" /\ ~modelLoaded) =>
       /\ pc = "stopped"
       /\ error = "ModelLoadError"
       /\ ~saved
       /\ ~capConstructed
       /\ ~writerCreated
       /\ readFrames = <<>>
       /\ inferences = 0
  /\ capConstructed => modelLoaded

\* C6 witness: the run stopped on a model that did not load.
C6_Witness ==
  /\ pc = "stopped"
  /\ error = "ModelLoadError"
  /\ ~modelLoaded

\* C7: a run aborted by a per-frame error shows no results, offers no
\* download, and leaves no file at the output path.
C7_AbortLeavesNoArtifact ==
  pc = "crashed" => (~resultsShown /\ ~downloadOffered /\ ~outExists)

\* The steps along Idle -> Opened -> Processing -> Finalized -> Delivered, and
\* the two failures the state machine names.
PhaseStepNamed(p, q) ==
  \/ q = p
  \/ p = "Idle" /\ q = "Opened"
  \/ p = "Opened" /\ q = "Processing"
  \/ p = "Processing" /\ q = "Finalized"
  \/ p = "Finalized" /\ q = "Delivered" /\ capReleased' /\ writerReleased'
  \/ p = "Opened" /\ q = "Failed" /\ error' = "UnreadableVideo"
  \/ p = "Processing" /\ q = "Failed" /\ error' = "Exception"

\* C8 (as stated): the phase only moves along the chain, Failed is entered
\* only from Opened (reader did not open) or Processing (a per-frame call
\* raised), Failed and Delivered are terminal.
C8_PhaseOrderAsStated == [][PhaseStepNamed(Phase, Phase')]_vars

\* C8 (amended): as stated, and Failed is also entered from Idle when the
\* model does not load.
C8_PhaseOrder ==
  [][\/ PhaseStepNamed(Phase, Phase')
     \/ Phase = "Idle" /\ Phase' = "Failed" /\ error' = "ModelLoadError"]_vars

\* C8 witness: a run that went through every phase and offered the download.
C8_Witness ==
  /\ Phase = "Delivered"
  /\ Len(written) = 2

\* The label the claim maps a class id to.
LabelOf(id) ==
  CASE id = 0 -> "Forehand" [] id = 1 -> "Backhand" [] id = 2 -> "Serve"

\* C9: a box whose class id is outside {0,1,2} leaves the tally as it is; one
\* inside raises the mapped label's count by 1 and no other; the labels of the
\* tally are among Forehand, Backhand, Serve and no count ever decreases.
C9_TallyStep ==
  [][/\ (pc = "count" /\ boxIdx <= Len(boxes)) =>
          LET id == boxes[boxIdx]
          IN  IF id \in {0, 1, 2}
              THEN /\ DOMAIN shot_counter' = DOMAIN shot_counter \cup {LabelOf(id)}
                   /\ shot_counter'[LabelOf(id)] =
                        CounterGet(shot_counter, LabelOf(id)) + 1
                   /\ \A l \in DOMAIN shot_counter :
                        l # LabelOf(id) => shot_counter'[l] = shot_counter[l]
              ELSE shot_counter' = shot_counter
     /\ DOMAIN shot_counter' \subseteq {"Forehand", "Backhand", "Serve"}
     /\ \A l \in DOMAIN shot_counter :
          l \in DOMAIN shot_counter' /\ shot_counter'[l] >= shot_counter[l]
    ]_vars

\* C9 witness: a box of an unknown class has just been passed over while the
\* tally already held a count.
C9_Witness ==
  /\ pc = "count"
  /\ boxIdx = 2
  /\ boxes[1] = 3
  /\ DOMAIN shot_counter = {"Serve"}

\* C10: the download is offered only after the loop ended at end of stream,
\* with reader and writer released and a non-empty output file; a run of zero
\* frames whose output file is empty or missing shows results and a tip and
\* offers no download.
C10_DownloadGuard ==
  /\ downloadOffered =>
       /\ pc = "done"
       /\ frame = 0
       /\ capReleased
       /\ writerReleased
       /\ outExists
       /\ outSize > 0
  /\ (pc = "done" /\ readFrames = <<>> /\ (~outExists \/ outSize = 0)) =>
       (resultsShown /\ tip \in 1..NumTips /\ ~downloadOffered)

\* C10 witness: a finished run of zero frames that left an empty output file.
C10_Witness ==
  /\ pc = "done"
  /\ readFrames = <<>>
  /\ outExists
  /\ outSize = 0
====
